---------------------------- MODULE Spec2Model ----------------------------
(***************************************************************************)
(* Model of scripts/import-crm.py: the NetSuite CRM export to price book   *)
(* converter.  Text is modelled as a sequence of one-character strings so  *)
(* that trimming, case folding, substring search, the category regular     *)
(* expressions and number parsing are computed character by character.     *)
(* Column indices are 0-based as in the source; Cell(row, k) reads row[k]. *)
(***************************************************************************)
EXTENDS Integers, Sequences, FiniteSets, TLC

VARIABLES
    pc,         \* control location (main, process_crm_data, categorize_package)
    hasRows,    \* the parsed input holds at least one row
    header,     \* rows[0] as parsed
    col_map,    \* semantic key -> 0-based column index (only resolved keys)
    nrow,       \* number of data rows consumed by the loop so far
    row,        \* the data row of the latest loop iteration
    reads,      \* column indices the latest iteration read from row
    packages,   \* the records appended so far
    srcs,       \* srcs[k]: the data row number packages[k] was built from
    categories, \* result of organize_by_category
    outWrites,  \* how many times the output file was opened for writing
    stages,     \* the stages of main that have completed
    name,       \* argument of categorize_package
    category    \* its result

vars == <<pc, hasRows, header, col_map, nrow, row, reads, packages, srcs,
          categories, outWrites, stages, name, category>>

-----------------------------------------------------------------------------
(* Bounds *)

MaxNameTokens == 3
MaxHeaderLen == 3
MaxRowLen == 3
MaxRows == 1
MaxFilterRows == 2
MaxDefaultsHeaderLen == 2
WideRowLen == 7
MaxDisplayTokens == 2
MaxOrgRows == 3
MaxMainLen == 2

-----------------------------------------------------------------------------
(* Text helpers: str.upper, str.lower, str.strip, the `in' operator *)

Letters ==
    << <<"a","A">>, <<"b","B">>, <<"c","C">>, <<"d","D">>, <<"e","E">>,
       <<"f","F">>, <<"g","G">>, <<"h","H">>, <<"i","I">>, <<"j","J">>,
       <<"k","K">>, <<"l","L">>, <<"m","M">>, <<"n","N">>, <<"o","O">>,
       <<"p","P">>, <<"q","Q">>, <<"r","R">>, <<"s","S">>, <<"t","T">>,
       <<"u","U">>, <<"v","V">>, <<"w","W">>, <<"x","X">>, <<"y","Y">>,
       <<"z","Z">> >>

UpperChar(c) ==
    IF \E k \in 1..Len(Letters) : Letters[k][1] = c
    THEN Letters[CHOOSE k \in 1..Len(Letters) : Letters[k][1] = c][2]
    ELSE c

LowerChar(c) ==
    IF \E k \in 1..Len(Letters) : Letters[k][2] = c
    THEN Letters[CHOOSE k \in 1..Len(Letters) : Letters[k][2] = c][1]
    ELSE c

Upper(s) == [k \in 1..Len(s) |-> UpperChar(s[k])]
Lower(s) == [k \in 1..Len(s) |-> LowerChar(s[k])]

IsSpace(c) == c \in {" ", "\t", "\n", "\r"}

RECURSIVE LStrip(_)
LStrip(s) == IF Len(s) > 0 /\ IsSpace(s[1]) THEN LStrip(Tail(s)) ELSE s

RECURSIVE RStrip(_)
RStrip(s) ==
    IF Len(s) > 0 /\ IsSpace(s[Len(s)]) THEN RStrip(SubSeq(s, 1, Len(s) - 1))
    ELSE s

\* str.strip(): drop leading and trailing whitespace
Strip(s) == RStrip(LStrip(s))

\* lit occurs in s starting at (1-based) position p
StartsAt(s, lit, p) ==
    /\ p >= 1
    /\ p + Len(lit) - 1 <= Len(s)
    /\ \A k \in 1..Len(lit) : s[p + k - 1] = lit[k]

\* lit in s
Contains(s, lit) ==
    \E p \in 1..(Len(s) - Len(lit) + 1) : s[p] = lit[1] /\ StartsAt(s, lit, p)

\* min(S), max(S) of a non-empty set of integers
Min(S) == CHOOSE x \in S : \A y \in S : x <= y
Max(S) == CHOOSE x \in S : \A y \in S : x >= y

\* the regular expression `.*' can span s[a..b-1]: `.' matches no newline
DotStar(s, a, b) == a <= b /\ \A k \in a..(b - 1) : s[k] # "\n"

-----------------------------------------------------------------------------
(* CATEGORY_PATTERNS and categorize_package *)

\* One alternative of a pattern: literals joined by `.*', optionally followed
\* by a negative lookahead (?!.*neg).  neg = <<>> means no lookahead.
Alt(parts, neg) == [parts |-> parts, neg |-> neg]
Lit(l) == Alt(<<l>>, <<>>)

CATEGORY_PATTERNS == <<
    [pattern |-> {Lit(<<"P","A","N","E","L">>), Alt(<<<<"S","E","R","V","I","C","E">>, <<"P","A","N","E","L">>>>, <<>>), Lit(<<"S","U","B"," ","P","A","N","E","L">>)},
     category |-> "Panel Upgrades"],
    [pattern |-> {Lit(<<"S","U","R","G","E">>)},
     category |-> "Surge Protection"],
    [pattern |-> {Lit(<<"E"," ","C","A","R">>), Lit(<<"E","V"," ","C","I","R","C","U","I","T">>), Lit(<<"E","V"," ","C","H","A","R","G","E","R">>)},
     category |-> "EV Charging"],
    [pattern |-> {Lit(<<"H","O","T"," ","T","U","B">>)},
     category |-> "Hot Tub Circuits"],
    [pattern |-> {Alt(<<<<"2","4","0","V">>, <<"C","K","T">>>>, <<"E","V">>)},
     category |-> "Heavy Duty Circuits"],
    [pattern |-> {Alt(<<<<"O","U","T","L","E","T">>, <<"W","P">>>>, <<>>), Alt(<<<<"W","P">>, <<"O","U","T","L","E","T">>>>, <<>>)},
     category |-> "Exterior Outlets"],
    [pattern |-> {Lit(<<"F","L","O","O","D">>), Lit(<<"S","O","F","F","I","T">>), Lit(<<"C","O","A","C","H"," ","L","T">>), Lit(<<"L","A","N","D","S","C","A","P","E">>)},
     category |-> "Exterior Lighting"],
    [pattern |-> {Lit(<<"R","C","A","N">>), Lit(<<"W","A","F","E","R">>), Lit(<<"R","E","C","E","S","S","E","D">>)},
     category |-> "Recessed Lighting"],
    [pattern |-> {Lit(<<"T","A","P","E"," ","L","T">>)},
     category |-> "LED Tape Lighting"],
    [pattern |-> {Alt(<<<<"O","U","T","L","E","T">>>>, <<"W","P">>), Alt(<<<<"S","W","I","T","C","H">>>>, <<"W","P">>),
                  Alt(<<<<"D","I","M","M","E","R">>>>, <<"W","P">>), Alt(<<<<"R","E","C","E","P","T","A","C","L","E">>>>, <<"W","P">>)},
     category |-> "Outlets & Switches"],
    [pattern |-> {Lit(<<"F","I","X","T","U","R","E">>), Lit(<<"L","I","G","H","T"," ","B","O","X">>), Lit(<<"C","H","A","N","D","E","L","I","E","R">>), Lit(<<"P","E","N","D","A","N","T">>)},
     category |-> "Interior Lighting"],
    [pattern |-> {Lit(<<"F","A","N">>), Lit(<<"C","E","I","L","I","N","G"," ","F","A","N">>)},
     category |-> "Ceiling Fans"],
    [pattern |-> {Lit(<<"E","X","H","A","U","S","T">>), Lit(<<"B","A","T","H"," ","F","A","N">>), Lit(<<"V","E","N","T"," ","F","A","N">>)},
     category |-> "Bathrooms"],
    [pattern |-> {Lit(<<"G","E","N"," ">>), Lit(<<"G","E","N","E","R","A","T","O","R">>), Lit(<<"1","8","K","W">>), Lit(<<"2","2","K","W">>),
                  Lit(<<"2","4","K","W">>), Lit(<<"2","6","K","W">>)},
     category |-> "Home Generators"],
    [pattern |-> {Lit(<<"I","N","T","E","R","L","O","C","K">>)},
     category |-> "Portable Generator"],
    [pattern |-> {Lit(<<"A","I","R"," ","C","O","N","D","I","T","I","O","N","E","R">>), Lit(<<"A","/","C">>), Lit(<<"A","C"," ","C","I","R","C","U","I","T">>)},
     category |-> "HVAC Circuits"],
    [pattern |-> {Lit(<<"S","M","O","K","E">>), Lit(<<"C","A","R","B","O","N">>), Lit(<<"C","O"," ","D","E","T","E","C","T","O","R">>)},
     category |-> "Safety Devices"],
    [pattern |-> {Lit(<<"G","F","C","I">>), Lit(<<"G","F","I">>)},
     category |-> "GFCI Protection"],
    [pattern |-> {Lit(<<"B","R","E","A","K","E","R">>)},
     category |-> "Breakers"] >>

\* the negative lookahead (?!.*neg) succeeds at position p of s
LookaheadOk(s, neg, p) ==
    \/ neg = <<>>
    \/ ~ \E q \in p..(Len(s) - Len(neg) + 1) :
            StartsAt(s, neg, q) /\ DotStar(s, p, q)

\* parts[k..] joined by `.*' match in s with parts[k] starting at or after p;
\* the regex engine backtracks over every occurrence of every part
RECURSIVE MatchParts(_, _, _, _)
MatchParts(s, alt, k, p) ==
    \E q \in p..(Len(s) - Len(alt.parts[k]) + 1) :
        /\ s[q] = alt.parts[k][1]
        /\ StartsAt(s, alt.parts[k], q)
        /\ k > 1 => DotStar(s, p, q)
        /\ IF k = Len(alt.parts)
           THEN LookaheadOk(s, alt.neg, q + Len(alt.parts[k]))
           ELSE MatchParts(s, alt, k + 1, q + Len(alt.parts[k]))

\* re.search(pattern, s)
re_search(pattern, s) == \E alt \in pattern : MatchParts(s, alt, 1, 1)

RECURSIVE first_match(_, _)
first_match(k, s) ==
    IF k > Len(CATEGORY_PATTERNS) THEN "Other Services"
    ELSE IF re_search(CATEGORY_PATTERNS[k].pattern, s)
         THEN CATEGORY_PATTERNS[k].category
         ELSE first_match(k + 1, s)

\* faulty variant: the loop keeps going and the last matching rule decides
RECURSIVE last_match(_, _, _)
last_match(k, s, acc) ==
    IF k > Len(CATEGORY_PATTERNS) THEN acc
    ELSE last_match(k + 1, s,
             IF re_search(CATEGORY_PATTERNS[k].pattern, s)
             THEN CATEGORY_PATTERNS[k].category ELSE acc)

categorize_package_last(nm) == last_match(1, Upper(nm), "Other Services")

categorize_package(nm) == first_match(1, Upper(nm))

-----------------------------------------------------------------------------
(* Inputs of the categorizer: names built from at most MaxNameTokens words *)

CatTokens ==
    { <<"2","4","0","V">>, <<"C","K","T">>, <<"E","V">>, <<"F","O","R"," ","E","V"," ","C","H","A","R","G","E","R">>, <<"W","P">>, <<"O","U","T","L","E","T">>,
      <<"E","X","T","E","R","I","O","R">>, <<"s","u","r","g","e">>, <<"B","r","e","a","k","e","r">>, <<"x">> }

RECURSIVE Join(_)
Join(ws) ==
    IF Len(ws) = 0 THEN <<>>
    ELSE IF Len(ws) = 1 THEN ws[1]
    ELSE ws[1] \o <<" ">> \o Join(Tail(ws))

WordSeqs(tokens, n) == UNION {[1..k -> tokens] : k \in 0..n}

CatNames == {Join(ws) : ws \in WordSeqs(CatTokens, MaxNameTokens)}

-----------------------------------------------------------------------------
(* Numbers: the values float() can return.  A finite value is m / 10^e;    *)
(* comparisons follow IEEE 754: every comparison with NaN is false.        *)

Num(m, e) == [k |-> "num", m |-> m, e |-> e]
NaN == [k |-> "nan", m |-> 0, e |-> 0]
Inf(sign) == [k |-> "inf", m |-> sign, e |-> 0]
ValueError == [k |-> "err", m |-> 0, e |-> 0]
Zero == Num(0, 0)

RECURSIVE Pow10(_)
Pow10(n) == IF n = 0 THEN 1 ELSE 10 * Pow10(n - 1)

\* a < b on floats
Lt(a, b) ==
    CASE a.k = "nan" \/ b.k = "nan" -> FALSE
      [] a.k = "inf" /\ b.k = "inf" -> a.m < b.m
      [] a.k = "inf" -> a.m < 0
      [] b.k = "inf" -> b.m > 0
      [] OTHER -> a.m * Pow10(b.e) < b.m * Pow10(a.e)

\* a == b on floats
NumEq(a, b) ==
    CASE a.k = "nan" \/ b.k = "nan" -> FALSE
      [] a.k = "inf" \/ b.k = "inf" -> a.k = b.k /\ a.m = b.m
      [] OTHER -> a.m * Pow10(b.e) = b.m * Pow10(a.e)

\* a <= b on floats
Le(a, b) == Lt(a, b) \/ NumEq(a, b)

Digits == <<"0", "1", "2", "3", "4", "5", "6", "7", "8", "9">>
IsDigit(c) == \E d \in 1..Len(Digits) : Digits[d] = c
DigitVal(c) == (CHOOSE d \in 1..Len(Digits) : Digits[d] = c) - 1

RECURSIVE DigitsVal(_)
DigitsVal(s) ==
    IF Len(s) = 0 THEN 0
    ELSE 10 * DigitsVal(SubSeq(s, 1, Len(s) - 1)) + DigitVal(s[Len(s)])

\* an unsigned numeral body u with the sign already read
Unsigned(u, sign) ==
    IF Lower(u) = <<"n","a","n">> THEN NaN
    ELSE IF Lower(u) \in {<<"i","n","f">>, <<"i","n","f","i","n","i","t","y">>} THEN Inf(sign)
    ELSE IF /\ \E p \in 1..Len(u) : IsDigit(u[p])
            /\ \A p \in 1..Len(u) : IsDigit(u[p]) \/ u[p] = "."
            /\ \A p, q \in 1..Len(u) : (u[p] = "." /\ u[q] = ".") => p = q
         THEN Num(sign * DigitsVal(SelectSeq(u, IsDigit)),
                  IF \E p \in 1..Len(u) : u[p] = "."
                  THEN Len(u) - (CHOOSE p \in 1..Len(u) : u[p] = ".")
                  ELSE 0)
         ELSE ValueError

Signed(t) ==
    IF Len(t) > 0 /\ t[1] = "-" THEN Unsigned(Tail(t), -1)
    ELSE IF Len(t) > 0 /\ t[1] = "+" THEN Unsigned(Tail(t), 1)
    ELSE Unsigned(t, 1)

\* float(s) for text s: surrounding whitespace is ignored, then an optional
\* sign, then "nan", "inf", "infinity" in any case or a decimal numeral with
\* at least one digit; anything else raises ValueError.  (Exponents and digit
\* group underscores are not modelled: no input of the model contains them.)
float(s) == Signed(Strip(s))

NotCurrency(c) == c \notin {",", "$"}

\* clean_price(price_str) for a text cell
clean_price(price_str) ==
    IF price_str = <<>> THEN Zero
    ELSE LET v == float(SelectSeq(price_str, NotCurrency))
         IN  IF v.k = "err" THEN Zero ELSE v

\* clean_hours(hours_str) for a text cell
clean_hours(hours_str) ==
    IF hours_str = <<>> THEN Zero
    ELSE LET v == float(hours_str)
         IN  IF v.k = "err" THEN Zero ELSE v

-----------------------------------------------------------------------------
(* process_crm_data: header resolution *)

\* the key the if/elif chain assigns for one header cell, "none" if no branch
HeaderKey(h) ==
    LET h_lower == Lower(Strip(h))
    IN  CASE Contains(h_lower, <<"i","n","t","e","r","n","a","l"," ","i","d">>) -> "id"
          [] h_lower = <<"n","a","m","e">> -> "name"
          [] Contains(h_lower, <<"s","a","l","e","s"," ","p","r","i","c","e">>) -> "price"
          [] Contains(h_lower, <<"l","a","b","o","r"," ","h","o","u","r","s">>) -> "hours"
          [] Contains(h_lower, <<"l","a","b","o","r"," ","c","o","s","t">>) -> "labor_cost"
          [] Contains(h_lower, <<"d","e","s","c","r","i","p","t","i","o","n">>) -> "description"
          [] Contains(h_lower, <<"s","h","o","w"," ","o","n"," ","m","o","b","i","l","e">>) -> "show_mobile"
          [] OTHER -> "none"

\* faulty variant: a key that is already assigned is kept
Assign_keep(m, key, idx) ==
    IF key = "none" \/ key \in DOMAIN m THEN m ELSE (key :> idx) @@ m

\* col_map[key] = i
Assign(m, key, idx) ==
    IF key = "none" THEN m ELSE (key :> idx) @@ m

\* the loop over enumerate(header), from cell k (1-based) on; index = k - 1
RECURSIVE ResolveFrom(_, _, _)
ResolveFrom(hdr, k, m) ==
    IF k > Len(hdr) THEN m
    ELSE ResolveFrom(hdr, k + 1, Assign(m, HeaderKey(hdr[k]), k - 1))

EmptyMap == <<>>

ResolveHeader(hdr) == ResolveFrom(hdr, 1, EmptyMap)

\* max(col_map.values(), default=0)
MaxIdx(m) == IF DOMAIN m = {} THEN 0 ELSE Max({m[key] : key \in DOMAIN m})

-----------------------------------------------------------------------------
(* process_crm_data: one data row *)

NoColumn == -1

\* the positional defaults written as the second argument of col_map.get
PositionalDefault(key) ==
    CASE key = "id" -> 0
      [] key = "name" -> 1
      [] key = "hours" -> 3
      [] key = "price" -> 5
      [] key = "show_mobile" -> 6
      [] key = "description" -> 8

\* faulty variant: an unresolved key is read at its positional default
ColumnOf_positional(m, key) ==
    IF key \in DOMAIN m THEN m[key] ELSE PositionalDefault(key)

\* The column `row[col_map.get(key, d)] if col_map.get(key) is not None else v'
\* reads: the mapped index, and no column at all when the key is unresolved
\* (the default d is never used).
ColumnOf(m, key) ==
    IF key \in DOMAIN m THEN m[key] ELSE NoColumn

Cell(r, idx) == r[idx + 1]

\* the columns read for a set of keys
Cols(m, keys) == {ColumnOf(m, key) : key \in keys} \ {NoColumn}

\* reading these keys from r raises no IndexError
InRange(m, r, keys) == \A c \in Cols(m, keys) : c < Len(r)

\* value of the conditional expression for key; other is its else-value
Field(m, r, key, other) ==
    IF ColumnOf(m, key) = NoColumn THEN other ELSE Cell(r, ColumnOf(m, key))

\* re.sub(r'^(AMSFL_|GENFL_)', '', name)
RemovePrefix(s) ==
    IF StartsAt(s, <<"A","M","S","F","L","_">>, 1) \/ StartsAt(s, <<"G","E","N","F","L","_">>, 1)
    THEN SubSeq(s, 7, Len(s))
    ELSE s

\* s.replace(old, ''): every non-overlapping occurrence, left to right
RECURSIVE Remove(_, _)
Remove(s, old) ==
    IF Len(s) = 0 THEN <<>>
    ELSE IF StartsAt(s, old, 1) THEN Remove(SubSeq(s, Len(old) + 1, Len(s)), old)
    ELSE <<s[1]>> \o Remove(Tail(s), old)

\* faulty variant: trimming only at the end
display_name_trim_last(nm) == Strip(Remove(RemovePrefix(nm), <<"I","N","S","T","A","L","L"," ">>))

display_name(nm) == Strip(Remove(Strip(RemovePrefix(nm)), <<"I","N","S","T","A","L","L"," ">>))

Skip(cols) == [result |-> "skip", cols |-> cols]
Raise(cols) == [result |-> "raise", cols |-> cols]
Emit(cols, pkg) == [result |-> "emit", cols |-> cols, pkg |-> pkg]

\* `if price <= 0: continue'
DropPrice(price) == Le(price, Zero)

\* `if show_mobile and 'no' in str(show_mobile).lower(): continue'
DropHidden(show_mobile) ==
    show_mobile # <<>> /\ Contains(Lower(show_mobile), <<"n","o">>)

\* `if not name or not name.strip(): continue'
DropBlank(nm) == nm = <<>> \/ Strip(nm) = <<>>

\* `if len(row) < max(col_map.values(), default=0) + 1: continue'
TooShort(m, r) == Len(r) < MaxIdx(m) + 1

\* clean_hours(row[...] if col_map.get('hours') is not None else 0)
Hours(m, r) ==
    IF ColumnOf(m, "hours") = NoColumn THEN Zero
    ELSE clean_hours(Cell(r, ColumnOf(m, "hours")))

\* clean_price(row[...] if col_map.get('price') is not None else 0)
Price(m, r) ==
    IF ColumnOf(m, "price") = NoColumn THEN Zero
    ELSE clean_price(Cell(r, ColumnOf(m, "price")))

\* the body of `for row in rows[1:]' for one row r
Iteration(m, r) ==
    IF TooShort(m, r) THEN Skip({})
    ELSE IF ~InRange(m, r, {"name"}) THEN Raise(Cols(m, {"name"}))
    ELSE LET nm == Field(m, r, "name", <<>>)
             c1 == Cols(m, {"name"})
         IN
    IF DropBlank(nm) THEN Skip(c1)
    ELSE IF ~InRange(m, r, {"show_mobile"}) THEN Raise(c1 \cup Cols(m, {"show_mobile"}))
    ELSE LET show_mobile == Field(m, r, "show_mobile", <<"Y","e","s">>)
             c2 == c1 \cup Cols(m, {"show_mobile"})
         IN
    IF DropHidden(show_mobile) THEN Skip(c2)
    ELSE IF ~InRange(m, r, {"price"}) THEN Raise(c2 \cup Cols(m, {"price"}))
    ELSE LET price == Price(m, r)
             c3 == c2 \cup Cols(m, {"price"})
             c4 == c3 \cup Cols(m, {"id", "hours", "description"})
         IN
    IF DropPrice(price) THEN Skip(c3)
    ELSE IF ~InRange(m, r, {"id", "hours", "description"}) THEN Raise(c4)
    ELSE Emit(c4, [id |-> Field(m, r, "id", <<>>),
                   name |-> nm,
                   displayName |-> display_name(nm),
                   price |-> price,
                   laborHours |-> Hours(m, r),
                   description |-> Field(m, r, "description", <<>>),
                   category |-> categorize_package(nm),
                   tier |-> "None",
                   upsellTo |-> <<>>])

-----------------------------------------------------------------------------
(* State *)

NoPackages == <<>>

Idle ==
    /\ hasRows = FALSE
    /\ header = <<>>
    /\ col_map = <<>>
    /\ nrow = 0
    /\ row = <<>>
    /\ reads = {}
    /\ packages = NoPackages
    /\ srcs = <<>>
    /\ categories = <<>>
    /\ outWrites = 0
    /\ stages = {}

-----------------------------------------------------------------------------
(* categorize_package as a call: SpecCat *)

InitCat ==
    /\ Idle
    /\ pc = "cat_call"
    /\ name \in CatNames
    /\ category = "none"

Categorize ==
    /\ pc = "cat_call"
    /\ category' = categorize_package(name)
    /\ pc' = "cat_ret"
    /\ UNCHANGED <<hasRows, header, col_map, nrow, row, reads, packages, srcs,
                   categories, outWrites, stages, name>>

NextCat == Categorize

SpecCat == InitCat /\ [][NextCat]_vars

-----------------------------------------------------------------------------
(* Claims about categorize_package *)

MatchingRules(s) ==
    {k \in 1..Len(CATEGORY_PATTERNS) : re_search(CATEGORY_PATTERNS[k].pattern, s)}

\* C3: the result of categorize_package is the category of the lowest-numbered
\* of the 19 rules whose pattern matches the upper-cased name, it is
\* "Other Services" exactly when no rule matches, and the two named scenarios
\* map to "EV Charging" and "Exterior Outlets".
C3_FirstMatchingRule ==
    pc = "cat_ret" =>
        LET m == MatchingRules(Upper(name))
        IN  /\ Len(CATEGORY_PATTERNS) = 19
            /\ m # {} => category = CATEGORY_PATTERNS[Min(m)].category
            /\ (m = {}) <=> (category = "Other Services")
            /\ name = <<"2","4","0","V"," ","C","K","T"," ","F","O","R"," ","E","V"," ","C","H","A","R","G","E","R">> => category = "EV Charging"
            /\ name = <<"W","P"," ","O","U","T","L","E","T"," ","E","X","T","E","R","I","O","R">> => category = "Exterior Outlets"

\* witness of C3: a name that two rules match has been categorized by the
\* earlier one
C3_Witness ==
    /\ pc = "cat_ret"
    /\ name = <<"W","P"," ","O","U","T","L","E","T"," ","E","X","T","E","R","I","O","R">>
    /\ Cardinality(MatchingRules(Upper(name))) >= 2
    /\ category = "Exterior Outlets"

\* C9: a name whose upper-cased form contains "EV" is never categorized as
\* "Heavy Duty Circuits".
C9_EVNeverHeavyDuty ==
    (pc = "cat_ret" /\ Contains(Upper(name), <<"E","V">>))
        => category # "Heavy Duty Circuits"

-----------------------------------------------------------------------------
(* process_crm_data as a state machine *)

\* `if not rows: return []'
ReturnEmpty ==
    /\ pc = "proc_call"
    /\ ~hasRows
    /\ packages' = NoPackages
    /\ srcs' = <<>>
    /\ pc' = "proc_ret"
    /\ stages' = stages \cup {"normalize"}
    /\ UNCHANGED <<hasRows, header, col_map, nrow, row, reads, categories,
                   outWrites, name, category>>

\* the header is trimmed and the column indices are found
BuildColMap ==
    /\ pc = "proc_call"
    /\ hasRows
    /\ col_map' = ResolveHeader(header)
    /\ packages' = NoPackages
    /\ srcs' = <<>>
    /\ nrow' = 0
    /\ pc' = "proc_loop"
    /\ UNCHANGED <<hasRows, header, row, reads, categories, outWrites, stages,
                   name, category>>

\* one iteration of `for row in rows[1:]' on the next data row r
ProcessRow(r) ==
    /\ pc = "proc_loop"
    /\ \E it \in {Iteration(col_map, r)} :
           /\ row' = r
           /\ nrow' = nrow + 1
           /\ reads' = it.cols
           /\ pc' = IF it.result = "raise" THEN "raised" ELSE "proc_loop"
           /\ packages' = IF it.result = "emit" THEN Append(packages, it.pkg)
                          ELSE packages
           /\ srcs' = IF it.result = "emit" THEN Append(srcs, nrow + 1) ELSE srcs
    /\ UNCHANGED <<hasRows, header, col_map, categories, outWrites, stages,
                   name, category>>

\* rows[1:] is exhausted: `return packages'
Return ==
    /\ pc = "proc_loop"
    /\ pc' = "proc_ret"
    /\ stages' = stages \cup {"normalize"}
    /\ UNCHANGED <<hasRows, header, col_map, nrow, row, reads, packages, srcs,
                   categories, outWrites, name, category>>

-----------------------------------------------------------------------------
(* organize_by_category *)

Reverse(s) == [k \in 1..Len(s) |-> s[Len(s) + 1 - k]]

\* list.sort(key=price) as CPython runs it on a list shorter than 64 items:
\* count_run finds the leading run (strictly descending runs are reversed),
\* binarysort inserts the remaining items; every comparison is key < key.
RECURSIVE RunLen(_, _, _)
RunLen(a, k, desc) ==
    IF k > Len(a) THEN Len(a)
    ELSE IF Lt(a[k].price, a[k - 1].price) = desc THEN RunLen(a, k + 1, desc)
    ELSE k - 1

\* binary search of the insertion point in a[l..r-1] (0-based, r exclusive)
RECURSIVE BinPos(_, _, _, _)
BinPos(a, pivot, l, r) ==
    IF l >= r THEN l
    ELSE LET p == l + ((r - l) \div 2)
         IN  IF Lt(pivot.price, a[p + 1].price) THEN BinPos(a, pivot, l, p)
             ELSE BinPos(a, pivot, p + 1, r)

\* a[0..start-1] is sorted; insert the remaining items one by one
RECURSIVE BinarySort(_, _)
BinarySort(a, start) ==
    IF start >= Len(a) THEN a
    ELSE LET pivot == a[start + 1]
             l == BinPos(a, pivot, 0, start)
         IN  BinarySort(SubSeq(a, 1, l) \o <<pivot>> \o SubSeq(a, l + 1, start)
                            \o SubSeq(a, start + 2, Len(a)),
                        start + 1)

list_sort(a) ==
    IF Len(a) < 2 THEN a
    ELSE LET desc == Lt(a[2].price, a[1].price)
             run == RunLen(a, 3, desc)
             a1 == IF desc
                   THEN Reverse(SubSeq(a, 1, run)) \o SubSeq(a, run + 1, Len(a))
                   ELSE a
         IN  BinarySort(a1, run)

\* the running minimum kept in startingAt, from float('inf')
RECURSIVE StartingAt(_, _, _)
StartingAt(ps, k, acc) ==
    IF k > Len(ps) THEN acc
    ELSE StartingAt(ps, k + 1, IF Lt(ps[k].price, acc) THEN ps[k].price ELSE acc)

\* the category names in the order sorted() gives them
SortedCategoryNames == <<"Bathrooms", "Breakers", "Ceiling Fans", "EV Charging", "Exterior Lighting", "Exterior Outlets", "GFCI Protection", "HVAC Circuits", "Heavy Duty Circuits", "Home Generators", "Hot Tub Circuits", "Interior Lighting", "LED Tape Lighting", "Other Services", "Outlets & Switches", "Panel Upgrades", "Portable Generator", "Recessed Lighting", "Safety Devices", "Surge Protection">>

get_category_icon(c) ==
    CASE c = "Panel Upgrades" -> "zap"
      [] c = "Surge Protection" -> "shield"
      [] c = "EV Charging" -> "battery-charging"
      [] c = "Hot Tub Circuits" -> "droplet"
      [] c = "Heavy Duty Circuits" -> "plug"
      [] c = "Exterior Outlets" -> "sun"
      [] c = "Exterior Lighting" -> "sun"
      [] c = "Recessed Lighting" -> "circle"
      [] c = "LED Tape Lighting" -> "minus"
      [] c = "Outlets & Switches" -> "toggle-right"
      [] c = "Interior Lighting" -> "lamp"
      [] c = "Ceiling Fans" -> "wind"
      [] c = "Bathrooms" -> "droplet"
      [] c = "Home Generators" -> "power"
      [] c = "Portable Generator" -> "battery"
      [] c = "HVAC Circuits" -> "thermometer"
      [] c = "Safety Devices" -> "alert-circle"
      [] c = "GFCI Protection" -> "shield"
      [] c = "Breakers" -> "square"
      [] OTHER -> "package"

InCategory(ps, c) == SelectSeq(ps, LAMBDA p : p.category = c)

Group(ps, c) ==
    [name |-> c,
     startingAt |-> StartingAt(InCategory(ps, c), 1, Inf(1)),
     packages |-> list_sort(InCategory(ps, c)),
     icon |-> get_category_icon(c)]

RECURSIVE GroupsFrom(_, _)
GroupsFrom(ps, k) ==
    IF k > Len(SortedCategoryNames) THEN <<>>
    ELSE IF InCategory(ps, SortedCategoryNames[k]) = <<>> THEN GroupsFrom(ps, k + 1)
    ELSE <<Group(ps, SortedCategoryNames[k])>> \o GroupsFrom(ps, k + 1)

organize_by_category(ps) == GroupsFrom(ps, 1)

Organize ==
    /\ pc = "proc_ret"
    /\ categories' = organize_by_category(packages)
    /\ pc' = "organized"
    /\ stages' = stages \cup {"aggregate"}
    /\ UNCHANGED <<hasRows, header, col_map, nrow, row, reads, packages, srcs,
                   outWrites, name, category>>

-----------------------------------------------------------------------------
(* main *)

\* sys.argv[1], or the first default candidate that exists, or the usage exit
ResolveInput ==
    /\ pc = "main"
    /\ \E argGiven \in BOOLEAN, found \in BOOLEAN :
          pc' = IF argGiven THEN "check_arg"
                ELSE IF found THEN "check_found"
                ELSE "exit_usage"
    /\ UNCHANGED <<hasRows, header, col_map, nrow, row, reads, packages, srcs,
                   categories, outWrites, stages, name, category>>

\* `if not filepath.exists()': a path taken from the candidates exists
CheckExists ==
    /\ pc \in {"check_arg", "check_found"}
    /\ \E exists \in (IF pc = "check_found" THEN {TRUE} ELSE BOOLEAN) :
          /\ pc' = IF exists THEN "detect" ELSE "exit_usage"
          /\ stages' = IF exists THEN stages \cup {"resolve"} ELSE stages
    /\ UNCHANGED <<hasRows, header, col_map, nrow, row, reads, packages, srcs,
                   categories, outWrites, name, category>>

\* the first 100 bytes decide the format
Detect ==
    /\ pc = "detect"
    /\ \E xml \in BOOLEAN : pc' = IF xml THEN "parse_xml" ELSE "parse_csv"
    /\ stages' = stages \cup {"detect"}
    /\ UNCHANGED <<hasRows, header, col_map, nrow, row, reads, packages, srcs,
                   categories, outWrites, name, category>>

\* the rows a reader hands over: none at all, or a header row
Parsed(has, hdr) ==
    /\ hasRows' = has
    /\ header' = hdr
    /\ pc' = "proc_call"
    /\ stages' = stages \cup {"parse"}
    /\ outWrites' = outWrites

Raised ==
    /\ pc' = "raised"
    /\ UNCHANGED <<hasRows, header, stages, outWrites>>

\* faulty variant: the output file is opened before the table is looked up
ParseXml_writes_first(hdrs) ==
    /\ pc = "parse_xml"
    /\ \/ /\ pc' = "raised"
          /\ outWrites' = outWrites + 1
          /\ UNCHANGED <<hasRows, header, stages>>
       \/ Parsed(FALSE, <<>>)
       \/ \E hdr \in hdrs \ {<<>>} : Parsed(TRUE, hdr)
    /\ UNCHANGED <<col_map, nrow, row, reads, packages, srcs, categories,
                   name, category>>

\* parse_xml_spreadsheet: malformed markup or no Table element raises;
\* rows without cells are dropped, so a header row has at least one cell
ParseXml(hdrs) ==
    /\ pc = "parse_xml"
    /\ \/ Raised
       \/ Parsed(FALSE, <<>>)
       \/ \E hdr \in hdrs \ {<<>>} : Parsed(TRUE, hdr)
    /\ UNCHANGED <<col_map, nrow, row, reads, packages, srcs, categories,
                   name, category>>

\* parse_csv: undecodable bytes raise; every row is kept
ParseCsv(hdrs) ==
    /\ pc = "parse_csv"
    /\ \/ Raised
       \/ Parsed(FALSE, <<>>)
       \/ \E hdr \in hdrs : Parsed(TRUE, hdr)
    /\ UNCHANGED <<col_map, nrow, row, reads, packages, srcs, categories,
                   name, category>>

\* mkdir of the parent directory, then open(output_path, 'w') and json.dump
WriteOutput ==
    /\ pc = "organized"
    /\ \E mkdirOk \in BOOLEAN :
          /\ pc' = IF mkdirOk THEN "done" ELSE "raised"
          /\ outWrites' = IF mkdirOk THEN outWrites + 1 ELSE outWrites
    /\ UNCHANGED <<hasRows, header, col_map, nrow, row, reads, packages, srcs,
                   categories, stages, name, category>>

-----------------------------------------------------------------------------
(* Specifications: the same operations on inputs drawn from bounded sets *)

SeqsUpTo(S, n) == UNION {[1..k -> S] : k \in 0..n}

AtCall(has, hdrs) ==
    /\ pc = "proc_call"
    /\ hasRows = has
    /\ header \in hdrs
    /\ col_map = EmptyMap
    /\ nrow = 0
    /\ row = <<>>
    /\ reads = {}
    /\ packages = NoPackages
    /\ srcs = <<>>
    /\ categories = <<>>
    /\ outWrites = 0
    /\ stages = {}
    /\ name = <<>>
    /\ category = "none"

\* process_crm_data(rows) reading at most n data rows drawn from rws
Process(rws, n) ==
    \/ ReturnEmpty
    \/ BuildColMap
    \/ (nrow < n /\ \E r \in rws : ProcessRow(r))
    \/ Return

\* rows[1:] is empty: the header is resolved and nothing else happens
ResolveOnly ==
    \/ ReturnEmpty
    \/ BuildColMap
    \/ Return

\* SpecHeader: process_crm_data on a header row alone, every header of up to
\* MaxHeaderLen cells
AllHeaderCells ==
    { <<"N","a","m","e">>, <<" ","B","a","s","e"," ","S","a","l","e","s"," ","P","r","i","c","e"," ">>, <<"S","a","l","e","s"," ","P","r","i","c","e">>, <<"S","h","o","w"," ","O","n"," ","M","o","b","i","l","e">>,
      <<"L","a","b","o","r"," ","H","o","u","r","s">>, <<"I","n","t","e","r","n","a","l"," ","I","D">>, <<"I","t","e","m"," ","D","e","s","c","r","i","p","t","i","o","n">>, <<"L","a","b","o","r"," ","C","o","s","t">>,
      <<"N","o","t","e","s">> }

InitHeader == \/ AtCall(FALSE, {<<>>})
              \/ AtCall(TRUE, SeqsUpTo(AllHeaderCells, MaxHeaderLen))
NextHeader == ResolveOnly
SpecHeader == InitHeader /\ [][NextHeader]_vars

\* SpecProc: every header of up to MaxHeaderLen cells, rows of up to
\* MaxRowLen cells that are empty or hold "5"
HeaderCells ==
    { <<"N","a","m","e">>, <<" ","B","a","s","e"," ","S","a","l","e","s"," ","P","r","i","c","e"," ">>, <<"S","h","o","w"," ","O","n"," ","M","o","b","i","l","e">>, <<"L","a","b","o","r"," ","H","o","u","r","s">>,
      <<"N","o","t","e","s">> }
Headers == SeqsUpTo(HeaderCells, MaxHeaderLen)
Rows == SeqsUpTo({<<>>, <<"5">>}, MaxRowLen)

InitProc == \/ AtCall(FALSE, {<<>>})
            \/ AtCall(TRUE, Headers)
NextProc == Process(Rows, MaxRows)
SpecProc == InitProc /\ [][NextProc]_vars

\* SpecFilter: headers that resolve the filtering columns in several orders,
\* cells that are empty, hidden, not a number, negative or a formatted price
FilterHeaders ==
    { <<<<"N","a","m","e">>, <<"S","a","l","e","s"," ","P","r","i","c","e">>>>,
      <<<<"N","a","m","e">>, <<"S","a","l","e","s"," ","P","r","i","c","e">>, <<"S","h","o","w"," ","O","n"," ","M","o","b","i","l","e">>>>,
      <<<<"N","a","m","e">>, <<"S","a","l","e","s"," ","P","r","i","c","e">>, <<"L","a","b","o","r"," ","H","o","u","r","s">>>>,
      <<<<"S","h","o","w"," ","O","n"," ","M","o","b","i","l","e">>, <<"N","a","m","e">>, <<"S","a","l","e","s"," ","P","r","i","c","e">>>>,
      <<<<"N","a","m","e">>, <<"L","a","b","o","r"," ","H","o","u","r","s">>>>,
      <<<<"S","a","l","e","s"," ","P","r","i","c","e">>>> }
FilterRows == SeqsUpTo({ <<>>, <<"N","o">>, <<"n","a","n">>, <<"-","2">>, <<"$","1",",","2","0","0">> }, MaxRowLen)

InitFilter == \/ AtCall(FALSE, {<<>>})
              \/ AtCall(TRUE, FilterHeaders)
NextFilter == Process(FilterRows, MaxFilterRows)
SpecFilter == InitFilter /\ [][NextFilter]_vars

\* SpecHours: a resolved labor hours column, cells that are empty, negative,
\* fractional or a formatted price
HoursHeaders ==
    { <<<<"N","a","m","e">>, <<"S","a","l","e","s"," ","P","r","i","c","e">>, <<"L","a","b","o","r"," ","H","o","u","r","s">>>>,
      <<<<"L","a","b","o","r"," ","H","o","u","r","s">>, <<"N","a","m","e">>, <<"S","a","l","e","s"," ","P","r","i","c","e">>>> }
HoursRows == SeqsUpTo({ <<>>, <<"-","2">>, <<"2",".","5">>, <<"$","1",",","2","0","0">> }, MaxRowLen)

InitHours == \/ AtCall(FALSE, {<<>>})
             \/ AtCall(TRUE, HoursHeaders)
NextHours == Process(HoursRows, MaxFilterRows)
SpecHours == InitHours /\ [][NextHours]_vars

\* SpecDefaults: headers that may lack the name or the price column, rows
\* wide enough to hold every positional default up to show_mobile
DefaultsHeaders == SeqsUpTo({ <<"N","a","m","e">>, <<"S","a","l","e","s"," ","P","r","i","c","e">>, <<"N","o","t","e","s">> }, MaxDefaultsHeaderLen)
WideRows == [1..WideRowLen -> { <<>>, <<"5">> }]

InitDefaults == \/ AtCall(FALSE, {<<>>})
                \/ AtCall(TRUE, DefaultsHeaders)
NextDefaults == Process(WideRows, MaxRows)
SpecDefaults == InitDefaults /\ [][NextDefaults]_vars

\* SpecName: a resolved name and price column, names built from the vendor
\* prefixes, "INSTALL" with and without its blank, a blank and two words
NameTokens ==
    { <<"A","M","S","F","L","_">>, <<"G","E","N","F","L","_">>, <<"I","N","S","T","A","L","L"," ">>, <<"I","N","S","T","A","L","L">>, <<" ">>, <<"X"," ">>, <<"P","A","N","E","L">> }

RECURSIVE Concat(_)
Concat(ws) == IF Len(ws) = 0 THEN <<>> ELSE ws[1] \o Concat(Tail(ws))

DisplayNames == {Concat(ws) : ws \in SeqsUpTo(NameTokens, MaxDisplayTokens)}
NameRows == {<<nm, <<"5">>>> : nm \in DisplayNames}

InitName == \/ AtCall(FALSE, {<<>>})
            \/ AtCall(TRUE, {<<<<"N","a","m","e">>, <<"S","a","l","e","s"," ","P","r","i","c","e">>>>})
NextName == Process(NameRows, MaxRows)
SpecName == InitName /\ [][NextName]_vars

\* SpecOrg: process_crm_data followed by organize_by_category
OrgRows ==
    {<<id, nm, price>> : id \in {<<"a">>, <<"b">>}, nm \in {<<"P","A","N","E","L">>, <<"x">>},
                         price \in {<<"1">>, <<"2">>, <<"n","a","n">>}}

InitOrg == \/ AtCall(FALSE, {<<>>})
           \/ AtCall(TRUE, {<<<<"I","n","t","e","r","n","a","l"," ","I","D">>, <<"N","a","m","e">>, <<"S","a","l","e","s"," ","P","r","i","c","e">>>>})
NextOrg == Process(OrgRows, MaxOrgRows) \/ Organize
SpecOrg == InitOrg /\ [][NextOrg]_vars

\* SpecMain: a whole run of main
MainHeaders == SeqsUpTo({ <<"N","a","m","e">>, <<"S","a","l","e","s"," ","P","r","i","c","e">> }, MaxMainLen)
MainRows == SeqsUpTo({ <<"P","A","N","E","L">>, <<"5">> }, MaxMainLen)

InitMain ==
    /\ Idle
    /\ pc = "main"
    /\ name = <<>>
    /\ category = "none"

NextMain ==
    \/ ResolveInput
    \/ CheckExists
    \/ Detect
    \/ ParseXml(MainHeaders)
    \/ ParseCsv(MainHeaders)
    \/ Process(MainRows, MaxRows)
    \/ Organize
    \/ WriteOutput

SpecMain == InitMain /\ [][NextMain]_vars

-----------------------------------------------------------------------------
(* Claims about process_crm_data *)

\* the latest iteration appended a record for its row
EmittedRow == srcs # <<>> /\ srcs[Len(srcs)] = nrow

\* a data row has been processed and the loop goes on
AfterRow == pc = "proc_loop" /\ nrow >= 1

\* C1: a record is emitted for a data row exactly when the row is at least
\* as wide as the highest resolved column index + 1, its resolved name is not
\* blank, its resolved mobile-visibility value does not contain "no" in lower
\* case and its cleaned price is greater than 0; records keep the order of
\* their rows and a row yields at most one record.
C1_EmittedIffValid ==
    AfterRow =>
        /\ EmittedRow <=>
              /\ Len(row) >= MaxIdx(col_map) + 1
              /\ Strip(Field(col_map, row, "name", <<>>)) # <<>>
              /\ ~Contains(Lower(Field(col_map, row, "show_mobile", <<"Y","e","s">>)), <<"n","o">>)
              /\ Lt(Zero, Price(col_map, row))
        /\ Len(srcs) = Len(packages)
        /\ \A k \in 1..(Len(srcs) - 1) : srcs[k] < srcs[k + 1]

\* C2: every emitted record has price > 0 and laborHours >= 0.
C2_PricePositiveHoursNonNegative ==
    \A k \in 1..Len(packages) :
        /\ Lt(Zero, packages[k].price)
        /\ Le(Zero, packages[k].laborHours)

\* the value the positional-default reading gives a field: the mapped column,
\* else the default column of the key
DefaultField(key) == Cell(row, ColumnOf_positional(col_map, key))

\* C5: under a header that resolves no name column or no price column, a data
\* row whose name read at the mapped-or-default column (1) is not blank, whose
\* price read at the mapped-or-default column (5) is greater than 0 and whose
\* mobile-visibility cell (6) does not hide it is emitted.
C5_PositionalDefaultsUsed ==
    (/\ AfterRow
     /\ {"name", "price"} \ DOMAIN col_map # {}
     /\ Len(row) >= MaxIdx(col_map) + 1
     /\ Len(row) >= 7
     /\ Strip(DefaultField("name")) # <<>>
     /\ Lt(Zero, clean_price(DefaultField("price")))
     /\ ~Contains(Lower(DefaultField("show_mobile")), <<"n","o">>))
        => EmittedRow

Keys == {"id", "name", "price", "hours", "labor_cost", "description", "show_mobile"}

\* the 0-based columns of the header whose cell is assigned to key
ColumnsFor(key) == {k - 1 : k \in {j \in 1..Len(header) : HeaderKey(header[j]) = key}}

HeaderResolved == hasRows /\ pc \in {"proc_loop", "proc_ret"}

\* C6 as stated: a key that several header cells match stays mapped to the
\* earliest such column.
C6_EarliestColumnKept ==
    HeaderResolved =>
        \A key \in Keys :
            ColumnsFor(key) # {} =>
                (key \in DOMAIN col_map /\ col_map[key] = Min(ColumnsFor(key)))

\* C6 amended: a key is resolved exactly when some header cell matches it, and
\* it is then mapped to the latest such column (a later column overwrites).
C6_LatestColumnWins ==
    HeaderResolved =>
        \A key \in Keys :
            /\ (key \in DOMAIN col_map) <=> (ColumnsFor(key) # {})
            /\ ColumnsFor(key) # {} => col_map[key] = Max(ColumnsFor(key))

\* witness of C6: a header with two cells for the same key has been resolved
C6_Witness ==
    /\ HeaderResolved
    /\ \E key \in Keys : Cardinality(ColumnsFor(key)) >= 2

\* C7 as stated: displayName is the name without its leading vendor prefix,
\* then without every "INSTALL ", trimmed only at the end.
C7_TrimmedOnlyLast ==
    \A k \in 1..Len(packages) :
        packages[k].displayName =
            Strip(Remove(RemovePrefix(packages[k].name), <<"I","N","S","T","A","L","L"," ">>))

\* C7 amended: the name without its leading vendor prefix is trimmed first,
\* then every "INSTALL " is removed, then the result is trimmed again; so a
\* name that ends in "INSTALL" and blanks keeps that "INSTALL".
C7_TrimmedBeforeAndAfter ==
    \A k \in 1..Len(packages) :
        LET p == packages[k]
            bare == IF \E pre \in {<<"A","M","S","F","L","_">>, <<"G","E","N","F","L","_">>} : StartsAt(p.name, pre, 1)
                    THEN SubSeq(p.name, 7, Len(p.name)) ELSE p.name
        IN  /\ p.displayName = Strip(Remove(Strip(bare), <<"I","N","S","T","A","L","L"," ">>))
            /\ p.name = <<"X"," ","I","N","S","T","A","L","L"," ">> => p.displayName = <<"X"," ","I","N","S","T","A","L","L">>
            /\ p.name = <<"A","M","S","F","L","_","I","N","S","T","A","L","L"," ">> => p.displayName = <<"I","N","S","T","A","L","L">>
            /\ p.name = <<"G","E","N","F","L","_","X"," ">> => p.displayName = <<"X">>
            /\ p.name = <<" ","A","M","S","F","L","_">> => p.displayName = <<"A","M","S","F","L","_">>

\* witness of C7: a record was emitted for a name that ends in "INSTALL "
C7_Witness ==
    \E k \in 1..Len(packages) :
        /\ packages[k].name = <<"X"," ","I","N","S","T","A","L","L"," ">>
        /\ packages[k].displayName = <<"X"," ","I","N","S","T","A","L","L">>

\* C10: no iteration raises an index error; a row shorter than the highest
\* resolved column index + 1 is skipped with nothing read, and every other row
\* is read only at resolved column indices inside the row.
C10_NoReadPastRow ==
    /\ pc # "raised"
    /\ nrow >= 1 =>
          /\ \A c \in reads : 0 <= c /\ c < Len(row)
          /\ reads \subseteq {col_map[key] : key \in DOMAIN col_map}
          /\ Len(row) < MaxIdx(col_map) + 1 => (reads = {} /\ ~EmittedRow)

\* witness of C10: a row exactly as wide as the header needs was read at
\* three columns and emitted
C10_Witness ==
    /\ AfterRow
    /\ EmittedRow
    /\ Len(row) = MaxIdx(col_map) + 1
    /\ Cardinality(reads) >= 3

-----------------------------------------------------------------------------
(* Claim about organize_by_category *)

Perms(n) == {f \in [1..n -> 1..n] : \A a, b \in 1..n : a # b => f[a] # f[b]}

\* C4: each group holds exactly the input records of its category, sorted
\* ascending by price with equal prices in input order, and its startingAt is
\* the minimum price of the group.
C4_GroupsSortedFromMinimum ==
    pc = "organized" =>
        /\ {categories[g].name : g \in 1..Len(categories)}
              = {packages[k].category : k \in 1..Len(packages)}
        /\ \A g \in 1..Len(categories) :
              LET grp == categories[g]
                  inp == InCategory(packages, grp.name)
                  n == Len(inp)
              IN  /\ n >= 1
                  /\ Len(grp.packages) = n
                  /\ \E f \in Perms(n) :
                        /\ \A k \in 1..n : grp.packages[k] = inp[f[k]]
                        /\ \A j, k \in 1..n :
                              (j < k /\ NumEq(inp[f[j]].price, inp[f[k]].price))
                                  => f[j] < f[k]
                  /\ \A k \in 1..(n - 1) :
                        Le(grp.packages[k].price, grp.packages[k + 1].price)
                  /\ \E k \in 1..n : NumEq(grp.startingAt, inp[k].price)
                  /\ \A k \in 1..n : Le(grp.startingAt, inp[k].price)

-----------------------------------------------------------------------------
(* Claim about main *)

Pipeline == {"resolve", "detect", "parse", "normalize", "aggregate"}

\* C8: the output file is opened only after input resolution, format
\* detection, parsing, normalization and aggregation have completed; a run
\* that ends in the usage exit or in an exception has not opened it, and a
\* run that completes has opened it exactly once.
C8_OutputOnlyAfterPipeline ==
    /\ outWrites \in {0, 1}
    /\ outWrites = 1 => Pipeline \subseteq stages
    /\ pc \in {"exit_usage", "raised"} => outWrites = 0
    /\ pc = "done" <=> outWrites = 1

\* witness of C8: the run was aborted by the spreadsheet reader's exception
\* after the format was detected
C8_Witness ==
    /\ pc = "raised"
    /\ "detect" \in stages
    /\ "parse" \notin stages
    /\ outWrites = 0

=============================================================================
